---- MODULE Spec2Model ----
(***************************************************************************)
(* Model of the procurement core: the PurchaseOrder aggregate, its line    *)
(* items, the PurchaseOrderState value object and the Money / Currency     *)
(* value objects.                                                          *)
(*                                                                         *)
(* JavaScript values are modelled as records with a tag, so that the       *)
(* instanceof / typeof / truthiness tests of the source can be computed.   *)
(* A call that throws is modelled by a result record [error |-> TRUE]; the  *)
(* error is a ValidationError unless the record names another kind.        *)
(***************************************************************************)
EXTENDS Integers, Sequences, FiniteSets, TLC

(***************************************************************************)
(* Bounds of the exploration.                                              *)
(***************************************************************************)
\* addItem is explored with every argument combination while the order holds
\* fewer than MaxVaried items; beyond that only the default call (and all the
\* invalid ones) are tried, up to the real capacity MAX_ITEMS.
MaxVaried == 1

(***************************************************************************)
(* JavaScript numbers.                                                     *)
(*                                                                         *)
(* A finite double is modelled by an integer count n of units of 1/8 cent, *)
(* i.e. the number n/800.  The model only produces finite numbers that are *)
(* multiples of a cent (the doubles nearest to c/100) or of 1/8 (which are *)
(* exact in binary), of magnitude below 2^31/800, where double arithmetic  *)
(* followed by toFixed(2) is exact.  Number.MAX_VALUE, Infinity and NaN    *)
(* are modelled symbolically, and so are the doubles from 2^53 on, where   *)
(* only every second integer is a double: Big(d) is 2^53 + d, d even.      *)
(***************************************************************************)
CENT == 8
ONE == 100 * CENT

Fin(n) == [k |-> "fin", n |-> n]
MAX_VALUE == [k |-> "max", n |-> 0]
Infinity == [k |-> "inf", n |-> 0]
NaN == [k |-> "nan", n |-> 0]
Big(d) == [k |-> "big", n |-> d]
\* a value that is not of type number (a string such as "10")
NotANumber == [k |-> "str", n |-> 0]

\* Number.isFinite(x): false for non-numbers, NaN and Infinity
NumberIsFinite(x) == x.k \in {"fin", "big", "max"}

\* Number.isInteger(x)
NumberIsInteger(x) == (x.k = "fin" /\ x.n % ONE = 0) \/ x.k \in {"big", "max"}

\* x < y for a number x and an integer literal y (comparisons with NaN and
\* with a non-numeric string are false)
LessThan(x, y) == x.k = "fin" /\ x.n < y * ONE

\* x > y, likewise
GreaterThan(x, y) == (x.k = "fin" /\ x.n > y * ONE) \/ x.k \in {"big", "max", "inf"}

\* (2^53 + d) + n/800 for n >= 0, rounded to the nearest double 2^53 + 2j,
\* a tie going to the one with the even significand (j even)
BigPlus(d, n) ==
    LET t == d * ONE + n
        q == t \div (2 * ONE)
        r == t % (2 * ONE)
    IN IF r < ONE THEN Big(2 * q)
       ELSE IF r > ONE THEN Big(2 * q + 2)
       ELSE IF q % 2 = 0 THEN Big(2 * q)
       ELSE Big(2 * q + 2)

\* the sums the model computes: all but those of two numbers from 2^53 on
PlusModelled(x, y) == ~(x.k = "big" /\ y.k = "big")

\* x + y on non-negative doubles: MAX_VALUE absorbs every modelled finite
\* addend, MAX_VALUE + MAX_VALUE overflows to Infinity
Plus(x, y) ==
    IF x.k = "nan" \/ y.k = "nan" THEN NaN
    ELSE IF x.k = "inf" \/ y.k = "inf" THEN Infinity
    ELSE IF x.k = "max" /\ y.k = "max" THEN Infinity
    ELSE IF x.k = "max" \/ y.k = "max" THEN MAX_VALUE
    ELSE IF x.k = "big" THEN BigPlus(x.n, y.n)
    ELSE IF y.k = "big" THEN BigPlus(y.n, x.n)
    ELSE Fin(x.n + y.n)

\* x * y on non-negative doubles, within TimesModelled: x * 1 is x, x * 0
\* is 0, MAX_VALUE * y overflows to Infinity for a whole number y >= 2
Times(x, y) ==
    IF x.k = "nan" \/ y.k = "nan" THEN NaN
    ELSE IF x.k = "fin" /\ y.k = "fin"
         THEN Fin((x.n \div ONE) * y.n + ((x.n % ONE) * y.n) \div ONE)
    ELSE IF (x.k = "fin" /\ x.n = 0) \/ (y.k = "fin" /\ y.n = 0)
         THEN (IF x.k = "inf" \/ y.k = "inf" THEN NaN ELSE Fin(0))
    ELSE IF y.k = "fin" /\ y.n = ONE THEN x
    ELSE IF x.k = "fin" /\ x.n = ONE THEN y
    ELSE Infinity

\* the products the model computes, for x >= 0 and y >= 0: of two ordinary
\* numbers when the product is a whole number of units of 1/8 cent and, if it
\* lies halfway between two cents, both factors are multiples of 1/8 (the
\* double product is then exactly the half cent, which toFixed rounds up); of
\* a number from 2^53 on and 0 or 1; of MAX_VALUE and a whole number
TimesModelled(x, y) ==
    \/ /\ x.k = "fin" /\ y.k = "fin"
       /\ ((x.n % ONE) * y.n) % ONE = 0
       /\ (Times(x, y).n % CENT = CENT \div 2
             => x.n % (ONE \div 8) = 0 /\ y.n % (ONE \div 8) = 0)
    \/ x.k = "big" /\ y.k = "fin" /\ y.n \in {0, ONE}
    \/ x.k = "max" /\ y.k = "fin" /\ y.n % ONE = 0
    \/ x.k = "fin" /\ x.n \in {0, ONE} /\ y.k \in {"big", "max"}

\* Number(x.toFixed(2)) for a finite x >= 0: the nearest multiple of a cent,
\* a tie going to the larger one; a number from 2^53 on is whole and prints
\* exactly; MAX_VALUE prints in exponent notation and parses back to itself
ToFixed2(x) ==
    IF x.k = "fin" THEN Fin(((x.n + (CENT \div 2)) \div CENT) * CENT) ELSE x

(***************************************************************************)
(* Results of calls that may throw.                                        *)
(***************************************************************************)
Throw == [error |-> TRUE, value |-> <<>>]
Return(v) == [error |-> FALSE, value |-> <<v>>]
ValueOf(r) == r.value[1]

(***************************************************************************)
(* Currency                                                                *)
(***************************************************************************)
VALID_CODES == {"USD", "EUR", "GBP", "JPY"}

\* new Currency(code)
NewCurrency(code) ==
    IF code \notin VALID_CODES THEN Throw
    ELSE Return([type |-> "Currency", code |-> code])

\* values that are not Currency instances
Undefined == [type |-> "undefined", code |-> ""]
PlainString(s) == [type |-> "string", code |-> s]
Boolean(b) == [type |-> "boolean", code |-> IF b THEN "true" ELSE "false"]

InstanceOfCurrency(v) == v.type = "Currency"

\* JavaScript truthiness of the modelled values
Truthy(v) ==
    /\ v.type # "undefined"
    /\ ~(v.type = "string" /\ v.code = "")
    /\ ~(v.type = "boolean" /\ v.code = "false")

\* equals comparing the codes only
CurrencyEquals_CodeOnly(this, other) == this.code = other.code

\* Currency.equals(other)
CurrencyEquals(this, other) == InstanceOfCurrency(other) /\ this.code = other.code

(***************************************************************************)
(* Money                                                                   *)
(***************************************************************************)
\* the Money constructor storing the amount as given, without rounding
NewMoney_NoRounding(amount, currency) ==
    IF ~NumberIsFinite(amount) \/ LessThan(amount, 0) THEN Throw
    ELSE IF ~InstanceOfCurrency(currency) THEN Throw
    ELSE Return([amount |-> amount, currency |-> currency])

\* new Money({amount, currency})
NewMoney(amount, currency) ==
    IF ~NumberIsFinite(amount) \/ LessThan(amount, 0) THEN Throw
    ELSE IF ~InstanceOfCurrency(currency) THEN Throw
    ELSE Return([amount |-> ToFixed2(amount), currency |-> currency])

\* Money.add(other), other a Money
MoneyAdd(this, other) ==
    IF ~CurrencyEquals(this.currency, other.currency) THEN Throw
    ELSE NewMoney(Plus(this.amount, other.amount), this.currency)

\* multiply ignoring its argument's size: the amount plus the multiplier
MoneyMultiply_Plus(this, multiplier) ==
    IF ~NumberIsFinite(multiplier) \/ LessThan(multiplier, 0) THEN Throw
    ELSE NewMoney(Plus(this.amount, multiplier), this.currency)

\* Money.multiply(multiplier)
MoneyMultiply(this, multiplier) ==
    IF ~NumberIsFinite(multiplier) \/ LessThan(multiplier, 0) THEN Throw
    ELSE NewMoney(Times(this.amount, multiplier), this.currency)

\* Money.equals(other), other a Money
MoneyEquals(this, other) ==
    this.amount = other.amount /\ CurrencyEquals(this.currency, other.currency)

(***************************************************************************)
(* PurchaseOrderState                                                      *)
(*                                                                         *)
(* A state object is modelled by its value; every transition builds a new  *)
(* object from a literal of VALID_STATES.                                  *)
(***************************************************************************)
VALID_STATES == {"Draft", "Submitted", "Approved", "Shipped", "Completed", "Cancelled"}

\* #validateState(state) throws
validateStateThrows(value) == value \notin VALID_STATES

\* new PurchaseOrderState(value)
NewPurchaseOrderState(value) ==
    IF validateStateThrows(value) THEN Throw ELSE Return(value)

\* the default parameter naming another state
DefaultStateValue_Submitted == "Submitted"

\* new PurchaseOrderState(): the default parameter value
DefaultStateValue == "Draft"

toSubmittedFrom(currentState) ==
    IF currentState # "Draft" THEN Throw ELSE NewPurchaseOrderState("Submitted")

toApprovedFrom(currentState) ==
    IF currentState # "Submitted" THEN Throw ELSE NewPurchaseOrderState("Approved")

toShippedFrom(currentState) ==
    IF currentState # "Approved" THEN Throw ELSE NewPurchaseOrderState("Shipped")

toCompletedFrom(currentState) ==
    IF currentState # "Shipped" THEN Throw ELSE NewPurchaseOrderState("Completed")

\* toCancelledFrom refusing an order that is already Cancelled as well
toCancelledFrom_TerminalOnly(currentState) ==
    IF currentState \in {"Completed", "Cancelled"} THEN Throw
    ELSE NewPurchaseOrderState("Cancelled")

\* toCancelledFrom reopening an order that is already Cancelled
toCancelledFrom_Reopening(currentState) ==
    IF currentState = "Completed" THEN Throw
    ELSE IF currentState = "Cancelled" THEN NewPurchaseOrderState("Draft")
    ELSE NewPurchaseOrderState("Cancelled")

toCancelledFrom(currentState) ==
    IF currentState = "Completed" THEN Throw ELSE NewPurchaseOrderState("Cancelled")

\* PurchaseOrderState.isDraft()
isDraft(value) == value = "Draft"

(***************************************************************************)
(* PurchaseOrderItem                                                       *)
(***************************************************************************)
InstanceOfProductId(v) == v.type = "ProductId"

\* new PurchaseOrderItem({orderId, productId, quantity, unitPrice}); orderId is
\* a string (empty or not) and unitPrice a Money at every call in the source
NewPurchaseOrderItem(orderId, productId, quantity, unitPrice) ==
    IF orderId = "" THEN Throw
    ELSE IF ~InstanceOfProductId(productId) THEN Throw
    ELSE IF ~NumberIsInteger(quantity) \/ ~GreaterThan(quantity, 0)
            \/ GreaterThan(quantity, 1000) THEN Throw
    ELSE Return([orderId |-> orderId, productId |-> productId,
                 quantity |-> quantity, unitPrice |-> unitPrice])

\* PurchaseOrderItem.calculateSubtotal()
calculateSubtotal(item) == MoneyMultiply(item.unitPrice, item.quantity)

(***************************************************************************)
(* PurchaseOrder: the pure part of its methods                             *)
(***************************************************************************)
MAX_ITEMS == 50

\* addItem without the draft check
addItemResult_NoDraftCheck(orderState, orderItems, orderId, orderCurrency, productId, quantity, unitPrice) ==
    IF Len(orderItems) >= MAX_ITEMS THEN Throw
    ELSE IF ~NumberIsFinite(unitPrice) \/ LessThan(unitPrice, 0) THEN Throw
    ELSE LET money == NewMoney(unitPrice, orderCurrency) IN
         IF money.error THEN Throw
         ELSE NewPurchaseOrderItem(orderId, productId, quantity, ValueOf(money))

\* addItem with the capacity test written > instead of >=
addItemResult_OffByOne(orderState, orderItems, orderId, orderCurrency, productId, quantity, unitPrice) ==
    IF ~isDraft(orderState) THEN Throw
    ELSE IF Len(orderItems) > MAX_ITEMS THEN Throw
    ELSE IF ~NumberIsFinite(unitPrice) \/ LessThan(unitPrice, 0) THEN Throw
    ELSE LET money == NewMoney(unitPrice, orderCurrency) IN
         IF money.error THEN Throw
         ELSE NewPurchaseOrderItem(orderId, productId, quantity, ValueOf(money))

\* addItem pricing every item in USD instead of the order's currency
addItemResult_FixedCurrency(orderState, orderItems, orderId, orderCurrency, productId, quantity, unitPrice) ==
    IF ~isDraft(orderState) THEN Throw
    ELSE IF Len(orderItems) >= MAX_ITEMS THEN Throw
    ELSE IF ~NumberIsFinite(unitPrice) \/ LessThan(unitPrice, 0) THEN Throw
    ELSE LET money == NewMoney(unitPrice, ValueOf(NewCurrency("USD"))) IN
         IF money.error THEN Throw
         ELSE NewPurchaseOrderItem(orderId, productId, quantity, ValueOf(money))

\* the item addItem would push, or the ValidationError it throws
addItemResult(orderState, orderItems, orderId, orderCurrency, productId, quantity, unitPrice) ==
    IF ~isDraft(orderState) THEN Throw
    ELSE IF Len(orderItems) >= MAX_ITEMS THEN Throw
    ELSE IF ~NumberIsFinite(unitPrice) \/ LessThan(unitPrice, 0) THEN Throw
    ELSE LET money == NewMoney(unitPrice, orderCurrency) IN
         IF money.error THEN Throw
         ELSE NewPurchaseOrderItem(orderId, productId, quantity, ValueOf(money))

\* items.reduce((sum, item) => sum.add(item.calculateSubtotal()), sum), from
\* the i-th item on; a throw inside the callback ends the fold
RECURSIVE reduceFrom(_, _, _)
reduceFrom(orderItems, i, sum) ==
    IF i > Len(orderItems) THEN Return(sum)
    ELSE LET subtotal == calculateSubtotal(orderItems[i]) IN
         IF subtotal.error THEN Throw
         ELSE LET next == MoneyAdd(sum, ValueOf(subtotal)) IN
              IF next.error THEN Throw
              ELSE reduceFrom(orderItems, i + 1, ValueOf(next))

\* PurchaseOrder.calculateTotalPrice()
calculateTotalPrice(orderItems, orderCurrency) ==
    IF Len(orderItems) = 0 THEN Throw
    ELSE LET zero == NewMoney(Fin(0), orderCurrency) IN
         IF zero.error THEN Throw
         ELSE reduceFrom(orderItems, 1, ValueOf(zero))

(***************************************************************************)
(* State                                                                   *)
(***************************************************************************)
VARIABLES
    exists,      \* a PurchaseOrder has been constructed
    id,          \* PurchaseOrder.#id
    supplierId,  \* PurchaseOrder.#supplierId
    currency,    \* PurchaseOrder.#currency
    orderDate,   \* PurchaseOrder.#orderDate
    items,       \* PurchaseOrder.#items
    state,       \* value of PurchaseOrder.#state
    op,          \* the last method called
    result,      \* its outcome: "ok" or "ValidationError"
    ret,         \* <<v>> when the last call returned the value v, else <<>>
    thisState,   \* a free-standing PurchaseOrderState: the receiver of a transition
    argState,    \* a free-standing PurchaseOrderState: the argument of a transition
    operands     \* three free-standing value objects a, b, c (Money or Currency)

vars == <<exists, id, supplierId, currency, orderDate, items, state,
          op, result, ret, thisState, argState, operands>>

orderVars == <<exists, id, supplierId, currency, orderDate, items, state>>

\* outcome of a call whose result record is r
Outcome(r) == IF r.error THEN "ValidationError" ELSE "ok"

(***************************************************************************)
(* Inputs                                                                  *)
(***************************************************************************)
\* new DateTime(), the current time
Now == [type |-> "DateTime", code |-> "now"]

ASupplierId == [type |-> "SupplierId", code |-> "uuid-s"]
ADateTime == [type |-> "DateTime", code |-> "2020-01-01"]
USD == ValueOf(NewCurrency("USD"))
EUR == ValueOf(NewCurrency("EUR"))

\* constructor calls <<supplierId, currency, orderDate, the identifier that
\* generateUUID() produces>>
ConstructArgs ==
    {<<ASupplierId, USD, ADateTime, "uuid-1">>,
     <<ASupplierId, EUR, Undefined, "uuid-2">>,
     <<ASupplierId, PlainString("USD"), Undefined, "uuid-1">>,
     <<ASupplierId, Undefined, ADateTime, "uuid-2">>,
     <<Undefined, USD, ADateTime, "uuid-1">>,
     <<Undefined, Undefined, Undefined, "uuid-2">>}

AProductId == [type |-> "ProductId", code |-> "uuid-p"]

\* the addItem call every order is explored with: quantity 1 at 5.00
DefaultItemArgs == <<AProductId, Fin(1 * ONE), Fin(5 * ONE)>>

\* addItem calls <<productId, quantity, unitPrice>> that pass every check on a
\* Draft order below capacity
ValidItemArgs ==
    {DefaultItemArgs,
     <<AProductId, Fin(2 * ONE), Fin(10 * ONE)>>,
     <<AProductId, Fin(1000 * ONE), Fin(ONE \div 8)>>,
     <<AProductId, Fin(1000 * ONE), Fin(10 * ONE)>>,
     <<AProductId, Fin(1 * ONE), MAX_VALUE>>,
     <<AProductId, Fin(2 * ONE), MAX_VALUE>>}

\* addItem calls with an argument the code rejects
InvalidItemArgs ==
    {<<PlainString("uuid-p"), Fin(1 * ONE), Fin(5 * ONE)>>,
     <<AProductId, Fin(0), Fin(5 * ONE)>>,
     <<AProductId, Fin(1001 * ONE), Fin(5 * ONE)>>,
     <<AProductId, Fin(ONE + ONE \div 2), Fin(5 * ONE)>>,
     <<AProductId, Fin(0 - ONE), Fin(5 * ONE)>>,
     <<AProductId, NotANumber, Fin(5 * ONE)>>,
     <<AProductId, Fin(1 * ONE), Fin(0 - ONE)>>,
     <<AProductId, Fin(1 * ONE), NaN>>,
     <<AProductId, Fin(1 * ONE), Infinity>>,
     <<AProductId, Fin(1 * ONE), NotANumber>>,
     <<PlainString("uuid-p"), Fin(0), NaN>>}

\* the addItem calls tried on an order that holds n items: every call while
\* n < MaxVaried, then the default call and the invalid ones
ItemArgs(n) ==
    IF n < MaxVaried THEN ValidItemArgs \cup InvalidItemArgs
    ELSE {DefaultItemArgs} \cup InvalidItemArgs

(***************************************************************************)
(* PurchaseOrder                                                           *)
(***************************************************************************)
Init ==
    /\ exists = FALSE
    /\ id = ""
    /\ supplierId = Undefined
    /\ currency = Undefined
    /\ orderDate = Undefined
    /\ items = <<>>
    /\ state = "none"
    /\ op = "none"
    /\ result = "none"
    /\ ret = <<>>
    /\ thisState = "none"
    /\ argState = "none"
    /\ operands = <<Undefined, Undefined, Undefined>>

\* the test `!currency instanceof Currency` of the constructor: the operand of
\* instanceof is the boolean !currency
CurrencyRejected(c) == InstanceOfCurrency(Boolean(~Truthy(c)))

\* new PurchaseOrder({supplierId, currency, orderDate})
Construct(s, c, d, uuid) ==
    /\ ~exists
    /\ op' = "constructor"
    /\ ret' = <<>>
    /\ IF ~Truthy(s) \/ CurrencyRejected(c)
       THEN /\ result' = "ValidationError"
            /\ UNCHANGED orderVars
       ELSE /\ result' = "ok"
            /\ exists' = TRUE
            /\ id' = uuid
            /\ supplierId' = s
            /\ currency' = c
            /\ orderDate' = IF d.type = "DateTime" THEN d ELSE Now
            /\ items' = <<>>
            /\ state' = ValueOf(NewPurchaseOrderState(DefaultStateValue))
    /\ UNCHANGED <<thisState, argState, operands>>

\* addItem pushing the entry before PurchaseOrderItem has validated it
AddItem_PushThenValidate(productId, quantity, unitPrice) ==
    /\ exists
    /\ LET r == addItemResult(state, items, id, currency, productId, quantity, unitPrice)
           money == NewMoney(unitPrice, currency)
           pushed == /\ isDraft(state)
                     /\ Len(items) < MAX_ITEMS
                     /\ ~money.error
       IN
       /\ op' = "addItem"
       /\ result' = Outcome(r)
       /\ ret' = <<>>
       /\ items' = IF pushed
                   THEN Append(items, [orderId |-> id, productId |-> productId,
                                       quantity |-> quantity, unitPrice |-> ValueOf(money)])
                   ELSE items
    /\ UNCHANGED <<exists, id, supplierId, currency, orderDate, state, thisState, argState, operands>>

\* addItem putting the new item first (unshift instead of push)
AddItem_Unshift(productId, quantity, unitPrice) ==
    /\ exists
    /\ LET r == addItemResult(state, items, id, currency, productId, quantity, unitPrice) IN
       /\ op' = "addItem"
       /\ result' = Outcome(r)
       /\ ret' = <<>>
       /\ items' = IF r.error THEN items ELSE <<ValueOf(r)>> \o items
    /\ UNCHANGED <<exists, id, supplierId, currency, orderDate, state, thisState, argState, operands>>

\* PurchaseOrder.addItem({productId, quantity, unitPrice})
AddItem(productId, quantity, unitPrice) ==
    /\ exists
    /\ LET r == addItemResult(state, items, id, currency, productId, quantity, unitPrice) IN
       /\ op' = "addItem"
       /\ result' = Outcome(r)
       /\ ret' = <<>>
       /\ items' = IF r.error THEN items ELSE Append(items, ValueOf(r))
    /\ UNCHANGED <<exists, id, supplierId, currency, orderDate, state, thisState, argState, operands>>

\* calculateTotalPrice emptying the item list it has summed
CalculateTotalPrice_Draining ==
    /\ exists
    /\ LET r == calculateTotalPrice(items, currency) IN
       /\ op' = "calculateTotalPrice"
       /\ result' = Outcome(r)
       /\ ret' = r.value
    /\ items' = <<>>
    /\ UNCHANGED <<exists, id, supplierId, currency, orderDate, state, thisState, argState, operands>>

\* PurchaseOrder.calculateTotalPrice()
CalculateTotalPrice ==
    /\ exists
    /\ LET r == calculateTotalPrice(items, currency) IN
       /\ op' = "calculateTotalPrice"
       /\ result' = Outcome(r)
       /\ ret' = r.value
    /\ UNCHANGED <<orderVars, thisState, argState, operands>>

\* this.#state = this.#state.<transition>(this.#state), r the transition's result
Transition(name, r) ==
    /\ op' = name
    /\ result' = Outcome(r)
    /\ ret' = <<>>
    /\ state' = IF r.error THEN state ELSE ValueOf(r)
    /\ UNCHANGED <<exists, id, supplierId, currency, orderDate, items, thisState, argState, operands>>

\* approve() delegating to the wrong transition
Approve_ViaCancelled == exists /\ Transition("approve", toCancelledFrom(state))

\* PurchaseOrder.approve()
Approve == exists /\ Transition("approve", toApprovedFrom(state))

\* PurchaseOrder.ship()
Ship == exists /\ Transition("ship", toShippedFrom(state))

\* PurchaseOrder.complete()
Complete == exists /\ Transition("complete", toCompletedFrom(state))

\* cancel() delegating to the wrong transition
Cancel_ViaCompleted == exists /\ Transition("cancel", toCompletedFrom(state))

\* PurchaseOrder.cancel()
Cancel == exists /\ Transition("cancel", toCancelledFrom(state))

Next ==
    \/ \E a \in ConstructArgs : Construct(a[1], a[2], a[3], a[4])
    \/ \E a \in ItemArgs(Len(items)) : AddItem(a[1], a[2], a[3])
    \/ CalculateTotalPrice
    \/ Approve
    \/ Ship
    \/ Complete
    \/ Cancel

Spec == Init /\ [][Next]_vars

(***************************************************************************)
(* The lifecycle as a caller drives it through the aggregate root: add     *)
(* items, then call the transition methods of PurchaseOrder in lifecycle   *)
(* order, each one once.                                                   *)
(***************************************************************************)
LifecycleAddItem(productId, quantity, unitPrice) ==
    /\ op \in {"constructor", "addItem"}
    /\ AddItem(productId, quantity, unitPrice)

LifecycleApprove == op = "addItem" /\ result = "ok" /\ Approve

LifecycleShip == op = "approve" /\ Ship

LifecycleComplete == op = "ship" /\ Complete

LifecycleNext ==
    \/ \E a \in ConstructArgs : Construct(a[1], a[2], a[3], a[4])
    \/ \E a \in ItemArgs(Len(items)) : LifecycleAddItem(a[1], a[2], a[3])
    \/ LifecycleApprove
    \/ LifecycleShip
    \/ LifecycleComplete

LifecycleSpec == Init /\ [][LifecycleNext]_vars

(***************************************************************************)
(* Free-standing PurchaseOrderState objects: two objects are built with    *)
(* the public constructor and every transition method of the first is      *)
(* called with the second as its argument.                                 *)
(***************************************************************************)
\* constructor arguments; "undefined" stands for a call without argument
StateValueArgs == VALID_STATES \cup {"Archived", "undefined"}

\* new PurchaseOrderState(value), with the default parameter applied
ConstructState(value) ==
    NewPurchaseOrderState(IF value = "undefined" THEN DefaultStateValue ELSE value)

\* thisState = new PurchaseOrderState(value)
NewThisState(value) ==
    /\ LET r == ConstructState(value) IN
       /\ op' = "new PurchaseOrderState"
       /\ result' = Outcome(r)
       /\ ret' = <<>>
       /\ thisState' = IF r.error THEN thisState ELSE ValueOf(r)
    /\ UNCHANGED <<orderVars, argState, operands>>

\* argState = new PurchaseOrderState(value)
NewArgState(value) ==
    /\ LET r == ConstructState(value) IN
       /\ op' = "new PurchaseOrderState"
       /\ result' = Outcome(r)
       /\ ret' = <<>>
       /\ argState' = IF r.error THEN argState ELSE ValueOf(r)
    /\ UNCHANGED <<orderVars, thisState, operands>>

\* a transition that overwrites the value of the object it is called on
CallTransition_InPlace(name, r) ==
    /\ thisState # "none"
    /\ argState # "none"
    /\ op' = name
    /\ result' = Outcome(r)
    /\ ret' = r.value
    /\ thisState' = IF r.error THEN thisState ELSE ValueOf(r)
    /\ UNCHANGED <<orderVars, argState, operands>>

\* thisState.<transition>(argState), r the transition's result; the returned
\* object is kept in ret
CallTransition(name, r) ==
    /\ thisState # "none"
    /\ argState # "none"
    /\ op' = name
    /\ result' = Outcome(r)
    /\ ret' = r.value
    /\ UNCHANGED <<orderVars, thisState, argState, operands>>

ToSubmitted == CallTransition("toSubmittedFrom", toSubmittedFrom(argState))

ToApproved == CallTransition("toApprovedFrom", toApprovedFrom(argState))

ToShipped == CallTransition("toShippedFrom", toShippedFrom(argState))

ToCompleted == CallTransition("toCompletedFrom", toCompletedFrom(argState))

ToCancelled == CallTransition("toCancelledFrom", toCancelledFrom(argState))

StateNext ==
    \/ \E v \in StateValueArgs : NewThisState(v)
    \/ \E v \in StateValueArgs : NewArgState(v)
    \/ ToSubmitted
    \/ ToApproved
    \/ ToShipped
    \/ ToCompleted
    \/ ToCancelled

StateSpec == Init /\ [][StateNext]_vars

(***************************************************************************)
(* Properties                                                              *)
(***************************************************************************)
\* outcome of the last transition call on the free-standing state objects: it
\* succeeded with a new object of value target when the argument's value is in
\* sources, and threw otherwise
TableRow(sources, target) ==
    IF argState \in sources
    THEN result = "ok" /\ ret = <<target>>
    ELSE result = "ValidationError" /\ ret = <<>>

\* C1: every transition of PurchaseOrderState succeeds exactly from its
\* required source state and yields its target: toSubmittedFrom from Draft,
\* toApprovedFrom from Submitted, toShippedFrom from Approved, toCompletedFrom
\* from Shipped, toCancelledFrom from every state but Completed; from every
\* other source it throws ValidationError.
C1_TransitionTable ==
    /\ op = "toSubmittedFrom" => TableRow({"Draft"}, "Submitted")
    /\ op = "toApprovedFrom" => TableRow({"Submitted"}, "Approved")
    /\ op = "toShippedFrom" => TableRow({"Approved"}, "Shipped")
    /\ op = "toCompletedFrom" => TableRow({"Shipped"}, "Completed")
    /\ op = "toCancelledFrom" => TableRow(VALID_STATES \ {"Completed"}, "Cancelled")

C1_Witness ==
    /\ op = "toCancelledFrom"
    /\ argState = "Cancelled"
    /\ thisState = "Shipped"
    /\ ret = <<"Cancelled">>

\* C2: a caller that adds items and then calls the transition methods of the
\* aggregate in lifecycle order has driven the order to Completed once
\* complete() has been called.
C2_DrivenToCompleted == op = "complete" => state = "Completed"

\* Through the aggregate root an order is only ever Draft or Cancelled.
OnlyDraftOrCancelled == exists => state \in {"Draft", "Cancelled"}

\* C3: cancel() succeeds and leaves the order Cancelled when it is Draft,
\* Submitted, Approved or Shipped, and throws ValidationError, leaving the state
\* as it was, when it is Completed.
C3_Cancel ==
    [][op' = "cancel" =>
          /\ state \in {"Draft", "Submitted", "Approved", "Shipped"}
                => result' = "ok" /\ state' = "Cancelled"
          /\ state = "Completed"
                => result' = "ValidationError" /\ state' = state]_vars

C3_Witness == op = "cancel" /\ result = "ok" /\ state = "Cancelled" /\ Len(items) > 0

\* C4: once the order is Completed or Cancelled, approve, ship, complete and
\* cancel all throw ValidationError and the state does not change.
C4_Terminal ==
    [][(state \in {"Completed", "Cancelled"}
        /\ op' \in {"approve", "ship", "complete", "cancel"})
          => result' = "ValidationError" /\ state' = state]_vars

\* C5: the item list changes only while the order is Draft; in every other
\* state addItem throws ValidationError whatever its arguments.
C5_DraftOnly ==
    [][(exists /\ ~isDraft(state)) =>
          /\ items' = items
          /\ op' = "addItem" => result' = "ValidationError"]_vars

C5_Witness ==
    /\ op = "addItem"
    /\ result = "ValidationError"
    /\ state = "Cancelled"
    /\ Len(items) > 0

\* C6: an order never holds more than 50 items: a valid addItem on a Draft
\* order with 49 items succeeds and gives 50, and addItem on an order with 50
\* items throws ValidationError and leaves 50.
C6_Capacity ==
    /\ [](Len(items) <= MAX_ITEMS)
    /\ [][/\ \A a \in ValidItemArgs :
                (isDraft(state) /\ Len(items) = MAX_ITEMS - 1 /\ AddItem(a[1], a[2], a[3]))
                   => result' = "ok" /\ Len(items') = MAX_ITEMS
          /\ (Len(items) = MAX_ITEMS /\ op' = "addItem")
                => result' = "ValidationError" /\ items' = items]_vars

C6_Witness ==
    /\ op = "addItem"
    /\ result = "ValidationError"
    /\ state = "Draft"
    /\ Len(items) = MAX_ITEMS

\* C7: a mutator that throws ValidationError leaves the item list and the
\* state of the order as they were before the call.
C7_AtomicOnFailure ==
    [][(op' \in {"addItem", "approve", "ship", "complete", "cancel"}
        /\ result' = "ValidationError")
          => items' = items /\ state' = state]_vars

C7_Witness ==
    /\ op = "addItem"
    /\ result = "ValidationError"
    /\ state = "Draft"
    /\ Len(items) \in 1 .. MAX_ITEMS - 1

\* every unit price of the list is an ordinary finite amount
AllFinite(orderItems) ==
    \A i \in 1 .. Len(orderItems) : orderItems[i].unitPrice.amount.k = "fin"

\* the sum of unitPrice x quantity over the list, in units of 1/8 cent
RECURSIVE SumOfSubtotals(_)
SumOfSubtotals(orderItems) ==
    IF orderItems = <<>> THEN 0
    ELSE Head(orderItems).unitPrice.amount.n * (Head(orderItems).quantity.n \div ONE)
         + SumOfSubtotals(Tail(orderItems))

\* C8: calculateTotalPrice throws ValidationError on an order without items;
\* otherwise it returns a Money in the order's currency whose amount is the sum
\* of unitPrice x quantity over the items.
C8_TotalPrice ==
    op = "calculateTotalPrice" =>
        IF Len(items) = 0 THEN result = "ValidationError"
        ELSE /\ result = "ok"
             /\ ret[1].currency = currency
             /\ AllFinite(items) => ret[1].amount = Fin(SumOfSubtotals(items))

\* calculateTotalPrice on orders whose unit prices are ordinary amounts
TotalPriceOfFiniteItems ==
    (op = "calculateTotalPrice" /\ Len(items) > 0 /\ AllFinite(items)) =>
        /\ result = "ok"
        /\ ret = <<[amount |-> Fin(SumOfSubtotals(items)), currency |-> currency]>>

\* C9: constructing a PurchaseOrder throws ValidationError when supplierId is
\* absent and when currency is not a Currency instance; no order has a
\* currency that is not a Currency.
C9_ConstructorValidates ==
    /\ (op = "constructor" /\ result = "ok")
          => Truthy(supplierId) /\ InstanceOfCurrency(currency)
    /\ exists => InstanceOfCurrency(currency)

\* the half of C9 about supplierId
SupplierIdRequired == exists => Truthy(supplierId)

\* C10: a PurchaseOrder that has just been constructed has no items and is in
\* state Draft.
C10_StartsEmptyDraft ==
    (op = "constructor" /\ result = "ok") =>
        exists /\ items = <<>> /\ state = "Draft" /\ isDraft(state)

C10_Witness ==
    /\ op = "constructor"
    /\ result = "ok"
    /\ currency = EUR
    /\ supplierId = ASupplierId

(***************************************************************************)
(* Items of the order                                                      *)
(***************************************************************************)
\* C11: in every reachable state of a PurchaseOrder, every item of its list
\* has a unitPrice in the order's currency and the order's id as orderId
C11_ItemsBoundToOrder ==
    exists =>
        \A i \in 1..Len(items) :
            /\ items[i].unitPrice.currency = currency
            /\ items[i].orderId = id

\* an order in EUR, identified uuid-2, holding two items
C11_Witness ==
    /\ exists
    /\ currency = EUR
    /\ id = "uuid-2"
    /\ Len(items) >= 2

\* get items() returning the internal array itself
itemsAccessor_NoCopy(orderItems) == [ref |-> "internal", elems |-> orderItems]

\* get items(): [...this.#items], a new array holding the same elements
itemsAccessor(orderItems) == [ref |-> "copy", elems |-> orderItems]

\* po.items
GetItems ==
    /\ exists
    /\ op' = "items"
    /\ result' = "ok"
    /\ ret' = <<itemsAccessor(items)>>
    /\ UNCHANGED <<orderVars, thisState, argState, operands>>

\* an item of some other order, which a caller may put into a list it holds
ForeignItem ==
    [orderId |-> "uuid-9", productId |-> AProductId, quantity |-> Fin(3 * ONE),
     unitPrice |-> ValueOf(NewMoney(Fin(7 * ONE), USD))]

\* the caller changes the array it has just obtained from po.items into
\* elems; the order's own array changes with it only if it is the same array
MutateList(name, elems) ==
    /\ op = "items"
    /\ op' = name
    /\ result' = "ok"
    /\ ret' = <<[ret[1] EXCEPT !.elems = elems]>>
    /\ items' = IF ret[1].ref = "internal" THEN elems ELSE items
    /\ UNCHANGED <<exists, id, supplierId, currency, orderDate, state, thisState, argState, operands>>

\* list.push(item)
ListPush == op = "items" /\ MutateList("push", Append(ret[1].elems, ForeignItem))

\* list.pop()
ListPop ==
    /\ op = "items"
    /\ Len(ret[1].elems) > 0
    /\ MutateList("pop", SubSeq(ret[1].elems, 1, Len(ret[1].elems) - 1))

\* list[0] = item
ListSet ==
    /\ op = "items"
    /\ Len(ret[1].elems) > 0
    /\ MutateList("set", [ret[1].elems EXCEPT ![1] = ForeignItem])

\* the addItem calls of the accessor runs: two kinds of first items, then
\* the default one
AccessorItemArgs(n) ==
    IF n < MaxVaried
    THEN {DefaultItemArgs, <<AProductId, Fin(2 * ONE), Fin(10 * ONE)>>}
    ELSE {DefaultItemArgs}

AccessorAddItem == \E a \in AccessorItemArgs(Len(items)) : AddItem(a[1], a[2], a[3])

AccessorNext ==
    \/ \E a \in ConstructArgs : Construct(a[1], a[2], a[3], a[4])
    \/ AccessorAddItem
    \/ CalculateTotalPrice
    \/ Cancel
    \/ GetItems
    \/ ListPush
    \/ ListPop
    \/ ListSet

AccessorSpec == Init /\ [][AccessorNext]_vars

\* C12: adding, removing or replacing elements of a list obtained from items
\* never changes the order's own item list
C12_ItemsIsACopy ==
    [][op' \in {"push", "pop", "set"} => items' = items]_vars

\* a Cancelled order of two items whose list a caller has popped an element
\* from: the caller's list is shorter, the order's is not
C12_Witness ==
    /\ op = "pop"
    /\ state = "Cancelled"
    /\ Len(items) = 2
    /\ Len(ret[1].elems) = 1

\* q is an integer in 1..1000
QuantityInRange(q) == q.k = "fin" /\ q.n % ONE = 0 /\ q.n >= ONE /\ q.n <= 1000 * ONE

\* p is a finite non-negative number
ValidPrice(p) == p.k = "max" \/ (p.k = "fin" /\ p.n >= 0)

\* C13: on a Draft order below capacity, addItem with a valid product and
\* price succeeds exactly when the quantity is an integer in 1..1000
C13_QuantityRange ==
    [][\A a \in ValidItemArgs \cup InvalidItemArgs :
          (/\ isDraft(state)
           /\ Len(items) < MAX_ITEMS
           /\ InstanceOfProductId(a[1])
           /\ ValidPrice(a[3])
           /\ AddItem(a[1], a[2], a[3]))
             => (result' = "ok" <=> QuantityInRange(a[2]))]_vars

\* the same on an order whose currency is a Currency
QuantityRangeOfCurrencyOrders ==
    [][\A a \in ValidItemArgs \cup InvalidItemArgs :
          (/\ isDraft(state)
           /\ InstanceOfCurrency(currency)
           /\ Len(items) < MAX_ITEMS
           /\ InstanceOfProductId(a[1])
           /\ ValidPrice(a[3])
           /\ AddItem(a[1], a[2], a[3]))
             => (result' = "ok" <=> QuantityInRange(a[2]))]_vars

(***************************************************************************)
(* Money objects on their own                                              *)
(***************************************************************************)
\* v instanceof Money
InstanceOfMoney(v) == DOMAIN v = {"amount", "currency"}

\* 2^53 = 9007199254740992
TwoTo53 == Big(0)

\* constructor calls <<amount, currency>> that succeed: 0, 0.125 (stored as
\* 0.13), 0.25, 1, 2^53 and Number.MAX_VALUE
ValidMoneyArgs ==
    {<<Fin(0), USD>>,
     <<Fin(ONE \div 8), USD>>,
     <<Fin(ONE \div 4), USD>>,
     <<Fin(ONE), USD>>,
     <<Fin(ONE), EUR>>,
     <<TwoTo53, USD>>,
     <<MAX_VALUE, USD>>}

\* constructor calls that throw
InvalidMoneyArgs ==
    {<<Fin(0 - ONE), USD>>,
     <<Fin(0 - 1), EUR>>,
     <<NaN, USD>>,
     <<Infinity, USD>>,
     <<NotANumber, USD>>,
     <<Fin(ONE), Undefined>>,
     <<Fin(ONE), PlainString("USD")>>,
     <<Fin(0 - ONE), Undefined>>}

MoneyArgs == ValidMoneyArgs \cup InvalidMoneyArgs

\* arguments of multiply: 0, 0.5, 1, 2, 3, -1, NaN, Infinity and a string
Multipliers ==
    {Fin(0), Fin(ONE \div 2), Fin(ONE), Fin(2 * ONE), Fin(3 * ONE),
     Fin(0 - ONE), NaN, Infinity, NotANumber}

\* the sum this.add(other) computes is one the number model covers
AddModelled(this, other) == PlusModelled(this.amount, other.amount)

\* the product this.multiply(multiplier) computes, if it gets that far, is
\* one the number model covers
MultiplyModelled(this, multiplier) ==
    (NumberIsFinite(multiplier) /\ ~LessThan(multiplier, 0))
        => TimesModelled(this.amount, multiplier)

\* a = new Money({amount, currency}), then b, then c
MoneyNew(i, amount, cur) ==
    /\ operands[i] = Undefined
    /\ \A j \in 1 .. i - 1 : operands[j] # Undefined
    /\ LET r == NewMoney(amount, cur) IN
       /\ op' = "Money"
       /\ result' = Outcome(r)
       /\ ret' = r.value
       /\ operands' = IF r.error THEN operands ELSE [operands EXCEPT ![i] = ValueOf(r)]
    /\ UNCHANGED <<orderVars, thisState, argState>>

\* operands[i].add(operands[j])
MoneyAddCall(i, j) ==
    /\ InstanceOfMoney(operands[i])
    /\ InstanceOfMoney(operands[j])
    /\ AddModelled(operands[i], operands[j])
    /\ LET r == MoneyAdd(operands[i], operands[j]) IN
       /\ op' = "add"
       /\ result' = Outcome(r)
       /\ ret' = r.value
    /\ UNCHANGED <<orderVars, thisState, argState, operands>>

\* operands[i].multiply(multiplier)
MoneyMultiplyCall(i, multiplier) ==
    /\ InstanceOfMoney(operands[i])
    /\ MultiplyModelled(operands[i], multiplier)
    /\ LET r == MoneyMultiply(operands[i], multiplier) IN
       /\ op' = "multiply"
       /\ result' = Outcome(r)
       /\ ret' = r.value
    /\ UNCHANGED <<orderVars, thisState, argState, operands>>

\* operands[i].add(operands[j]).add(operands[k]), the second call
MoneyAddToResult(k) ==
    /\ op = "add"
    /\ result = "ok"
    /\ InstanceOfMoney(operands[k])
    /\ AddModelled(ret[1], operands[k])
    /\ LET r == MoneyAdd(ret[1], operands[k]) IN
       /\ op' = "add.add"
       /\ result' = Outcome(r)
       /\ ret' = r.value
    /\ UNCHANGED <<orderVars, thisState, argState, operands>>

\* operands[i].multiply(x).multiply(multiplier), the second call
MoneyMultiplyResult(multiplier) ==
    /\ op = "multiply"
    /\ result = "ok"
    /\ MultiplyModelled(ret[1], multiplier)
    /\ LET r == MoneyMultiply(ret[1], multiplier) IN
       /\ op' = "multiply.multiply"
       /\ result' = Outcome(r)
       /\ ret' = r.value
    /\ UNCHANGED <<orderVars, thisState, argState, operands>>

MoneyNext ==
    \/ \E i \in 1 .. 3 : \E a \in MoneyArgs : MoneyNew(i, a[1], a[2])
    \/ \E i, j \in 1 .. 3 : MoneyAddCall(i, j)
    \/ \E k \in 1 .. 3 : MoneyAddToResult(k)
    \/ \E i \in 1 .. 3 : \E x \in Multipliers : MoneyMultiplyCall(i, x)
    \/ \E x \in Multipliers : MoneyMultiplyResult(x)

MoneySpec == Init /\ [][MoneyNext]_vars

\* the number z is the sum of the numbers x and y
IsSum(z, x, y) ==
    \/ x.k = "fin" /\ y.k = "fin" /\ z = Fin(x.n + y.n)
    \/ x.k = "big" /\ y.k = "fin" /\ y.n % (2 * ONE) = 0 /\ z = Big(x.n + y.n \div ONE)
    \/ x.k = "fin" /\ y.k = "big" /\ x.n % (2 * ONE) = 0 /\ z = Big(y.n + x.n \div ONE)
    \/ x.k = "max" /\ y = Fin(0) /\ z = MAX_VALUE
    \/ y.k = "max" /\ x = Fin(0) /\ z = MAX_VALUE

\* the claim of C14 about the step operands[i].add(operands[j])
AddAsDocumented(i, j) ==
    LET a == operands[i]
        b == operands[j]
    IN /\ operands' = operands
       /\ IF a.currency.code # b.currency.code
          THEN result' = "ValidationError"
          ELSE /\ result' = "ok"
               /\ ret'[1].currency = a.currency
               /\ IsSum(ret'[1].amount, a.amount, b.amount)

\* C14: Money.add throws ValidationError whenever the operands' currencies
\* differ, and for operands of one currency returns a Money of that currency
\* whose amount is the sum of the two amounts, leaving both operands unchanged
C14_Add ==
    [][\A i, j \in 1 .. 3 : MoneyAddCall(i, j) => AddAsDocumented(i, j)]_vars

\* the same for amounts below 2^53
AddOfOrdinaryAmounts ==
    [][\A i, j \in 1 .. 3 :
          (MoneyAddCall(i, j) /\ operands[i].amount.k = "fin" /\ operands[j].amount.k = "fin")
             => AddAsDocumented(i, j)]_vars

\* two results agree: both calls threw, or both returned and a.equals(b)
SameMoney(r1, r2) ==
    IF r1.error \/ r2.error THEN r1.error /\ r2.error
    ELSE MoneyEquals(ValueOf(r1), ValueOf(r2))

\* r.add(other), r the result of an earlier call
AddTo(r, other) == IF r.error THEN Throw ELSE MoneyAdd(ValueOf(r), other)

\* this.add(r), r the result of an earlier call
AddOf(this, r) == IF r.error THEN Throw ELSE MoneyAdd(this, ValueOf(r))

\* a, b and c are Money of one currency, at most one of them from 2^53 on
\* (so that every sum of them is one the number model covers)
OneCurrency(a, b, c) ==
    /\ InstanceOfMoney(a) /\ InstanceOfMoney(b) /\ InstanceOfMoney(c)
    /\ a.currency.code = b.currency.code
    /\ b.currency.code = c.currency.code
    /\ Cardinality({i \in 1 .. 3 : <<a, b, c>>[i].amount.k = "big"}) <= 1

\* a.add(b) equals b.add(a)
AddCommutes(a, b) == SameMoney(MoneyAdd(a, b), MoneyAdd(b, a))

\* a.add(b).add(c) equals a.add(b.add(c))
AddAssociates(a, b, c) == SameMoney(AddTo(MoneyAdd(a, b), c), AddOf(a, MoneyAdd(b, c)))

\* C15: for all Money a, b, c of one currency, a.add(b) equals b.add(a) and
\* a.add(b).add(c) equals a.add(b.add(c)) under Money.equals
C15_AddCommutesAssociates ==
    \A i, j, k \in 1 .. 3 :
        OneCurrency(operands[i], operands[j], operands[k])
            => /\ AddCommutes(operands[i], operands[j])
               /\ AddAssociates(operands[i], operands[j], operands[k])

\* commutativity alone, and associativity for amounts below 2^53
AddCommutesAndAssociatesBelowTwoTo53 ==
    \A i, j, k \in 1 .. 3 :
        OneCurrency(operands[i], operands[j], operands[k])
            => /\ AddCommutes(operands[i], operands[j])
               /\ (\A l \in {i, j, k} : operands[l].amount.k # "big")
                     => AddAssociates(operands[i], operands[j], operands[k])

\* r.multiply(x), r the result of an earlier call
MultiplyTo(r, x) == IF r.error THEN Throw ELSE MoneyMultiply(ValueOf(r), x)

\* m.multiply(x).multiply(y)
MultiplyTwice(m, x, y) == MultiplyTo(MoneyMultiply(m, x), y)

\* the finite non-negative multipliers
NonNegative == {x \in Multipliers : x.k = "fin" /\ x.n >= 0}

\* the whole ones among them
Whole == {x \in NonNegative : x.n % ONE = 0}

\* every product of m.multiply(x).multiply(y) is one the number model covers
TwiceModelled(m, x, y) ==
    /\ MultiplyModelled(m, x)
    /\ ~MoneyMultiply(m, x).error => MultiplyModelled(ValueOf(MoneyMultiply(m, x)), y)

\* the claim of C16 for m, x and y
MultiplyAgrees(m, x, y) ==
    /\ SameMoney(MultiplyTwice(m, x, y), MultiplyTwice(m, y, x))
    /\ SameMoney(MultiplyTwice(m, x, y), MoneyMultiply(m, Times(x, y)))

WholeCents(x) == (x.k = "fin" /\ x.n >= 0 /\ x.n % CENT = 0) \/ x.k \in {"big", "max"}

\* the amount is negative or not a finite number, or the currency is not a
\* Currency
BadMoneyArgs(amount, cur) ==
    \/ amount.k \in {"nan", "inf", "str"}
    \/ amount.k = "fin" /\ amount.n < 0
    \/ cur.type # "Currency"

\* C17: the Money constructor throws ValidationError exactly for a negative
\* or non-finite amount or a currency that is not a Currency, and every Money,
\* constructed directly or returned by add or multiply, has a non-negative
\* amount that is a whole number of cents
C17_MoneyValid ==
    /\ [](/\ \A i \in 1 .. 3 : InstanceOfMoney(operands[i]) => WholeCents(operands[i].amount)
          /\ \A i \in 1 .. Len(ret) : WholeCents(ret[i].amount))
    /\ [][\A i \in 1 .. 3 : \A a \in MoneyArgs :
              MoneyNew(i, a[1], a[2])
                 => (result' = "ValidationError" <=> BadMoneyArgs(a[1], a[2]))]_vars

\* the amount 0.125 has been stored as 0.13, and 0.25 multiplied by 0.5 has
\* given 0.13 as well
C17_Witness ==
    /\ op = "multiply"
    /\ result = "ok"
    /\ operands[1].amount = Fin(13 * CENT)
    /\ InstanceOfMoney(operands[2])
    /\ operands[2].amount = Fin(ONE \div 4)
    /\ ret[1].amount = Fin(13 * CENT)

(***************************************************************************)
(* Currency objects on their own                                           *)
(***************************************************************************)
\* arguments of the Currency constructor
Codes == {"USD", "EUR", "GBP", "JPY", "usd", "XXX", ""}

\* a plain object {code: c}
ObjectWithCode(c) == [type |-> "object", code |-> c]

\* values that are not Currency instances, to compare a Currency with
\* (undefined is the value of a variable nothing was assigned to)
NonCurrencies == {PlainString("USD"), ObjectWithCode("USD"), ObjectWithCode("EUR")}

\* a = new Currency(code), then b, then c
CurrencyNew(i, code) ==
    /\ operands[i] = Undefined
    /\ \A j \in 1 .. i - 1 : operands[j] # Undefined
    /\ LET r == NewCurrency(code) IN
       /\ op' = "Currency"
       /\ result' = Outcome(r)
       /\ ret' = r.value
       /\ operands' = IF r.error THEN operands ELSE [operands EXCEPT ![i] = ValueOf(r)]
    /\ UNCHANGED <<orderVars, thisState, argState>>

\* b = v or c = v, a value that is not a Currency
HoldValue(i, v) ==
    /\ i > 1
    /\ operands[i] = Undefined
    /\ \A j \in 1 .. i - 1 : operands[j] # Undefined
    /\ op' = "value"
    /\ result' = "ok"
    /\ ret' = <<>>
    /\ operands' = [operands EXCEPT ![i] = v]
    /\ UNCHANGED <<orderVars, thisState, argState>>

\* operands[i].equals(operands[j])
CurrencyEqualsCall(i, j) ==
    /\ InstanceOfCurrency(operands[i])
    /\ op' = "equals"
    /\ result' = "ok"
    /\ ret' = <<CurrencyEquals(operands[i], operands[j])>>
    /\ UNCHANGED <<orderVars, thisState, argState, operands>>

CurrencyNext ==
    \/ \E i \in 1 .. 3 : \E code \in Codes : CurrencyNew(i, code)
    \/ \E i \in 1 .. 3 : \E v \in NonCurrencies : HoldValue(i, v)
    \/ \E i, j \in 1 .. 3 : CurrencyEqualsCall(i, j)

CurrencySpec == Init /\ [][CurrencyNext]_vars

\* C18: new Currency(code) succeeds exactly for the codes USD, EUR, GBP and
\* JPY and throws ValidationError for any other; equals returns true exactly
\* when the other value is a Currency with the same code
C18_Currency ==
    [][/\ \A i \in 1 .. 3 : \A code \in Codes :
             CurrencyNew(i, code)
                => /\ result' = "ok" <=> code \in {"USD", "EUR", "GBP", "JPY"}
                   /\ result' = "ok" => operands'[i] = [type |-> "Currency", code |-> code]
                   /\ result' # "ok" => result' = "ValidationError" /\ operands' = operands
       /\ \A i, j \in 1 .. 3 :
             CurrencyEqualsCall(i, j)
                => ret'[1] = (operands[j].type = "Currency" /\ operands[j].code = operands[i].code)]_vars

\* a USD currency has been compared with a value that is not a Currency, the
\* object {code: 'USD'} or undefined, and equals has answered false
C18_Witness ==
    /\ op = "equals"
    /\ ret = <<FALSE>>
    /\ operands = <<ValueOf(NewCurrency("USD")), ObjectWithCode("USD"), Undefined>>

(***************************************************************************)
(* The aggregate's transitions and its item list                           *)
(***************************************************************************)
\* the call named name succeeds exactly from the state source and leaves the
\* order in the state target
SucceedsExactlyFrom(name, source, target) ==
    op' = name =>
        IF state = source
        THEN result' = "ok" /\ state' = target
        ELSE result' = "ValidationError"

IsPrefix(s, t) == Len(s) <= Len(t) /\ SubSeq(t, 1, Len(s)) = s

\* the amount z is the number x rounded to cents
RoundedToCents(z, x) ==
    IF x.k = "fin"
    THEN z.k = "fin" /\ z.n % CENT = 0 /\ z.n - x.n <= CENT \div 2 /\ x.n - z.n <= CENT \div 2
    ELSE z = x

\* C20: the item list is append-only and order-preserving: every step leaves
\* the items present before as an unchanged prefix of the list, and a
\* successful addItem makes the list one longer and puts last an item with the
\* given productId and quantity and the given unit price (as a Money of the
\* order's currency, rounded to cents)
C20_AppendOnly ==
    [][/\ IsPrefix(items, items')
       /\ \A a \in ValidItemArgs \cup InvalidItemArgs :
             (AddItem(a[1], a[2], a[3]) /\ result' = "ok")
                => /\ Len(items') = Len(items) + 1
                   /\ items'[Len(items')].productId = a[1]
                   /\ items'[Len(items')].quantity = a[2]
                   /\ items'[Len(items')].unitPrice.currency = currency
                   /\ RoundedToCents(items'[Len(items')].unitPrice.amount, a[3])]_vars

\* an order whose first item was added with quantity 1000 at 0.125 and whose
\* second with quantity 1 at 5.00
C20_Witness ==
    /\ op = "addItem"
    /\ result = "ok"
    /\ Len(items) = 2
    /\ items[1].quantity = Fin(1000 * ONE)
    /\ items[1].unitPrice.amount = Fin(13 * CENT)
    /\ items[2].quantity = Fin(ONE)

(***************************************************************************)
(* The aggregate with few kinds of items                                   *)
(***************************************************************************)
\* the addItem calls of these runs: two kinds of first items, then the
\* default one, and every invalid call
OrderItemArgs(n) == AccessorItemArgs(n) \cup InvalidItemArgs

OrderAddItem == \E a \in OrderItemArgs(Len(items)) : AddItem(a[1], a[2], a[3])

OrderNext ==
    \/ \E a \in ConstructArgs : Construct(a[1], a[2], a[3], a[4])
    \/ OrderAddItem
    \/ CalculateTotalPrice
    \/ Approve
    \/ Ship
    \/ Complete
    \/ Cancel

OrderSpec == Init /\ [][OrderNext]_vars

\* C21: once the state of a PurchaseOrder is not Draft no operation makes it
\* Draft again, and the item list stays as it is
C21_DraftNeverReentered ==
    [][(exists /\ ~isDraft(state)) => (~isDraft(state') /\ items' = items)]_vars

\* approve() has been tried on a Cancelled order holding two items
C21_Witness ==
    /\ op = "approve"
    /\ state = "Cancelled"
    /\ Len(items) = 2

\* C22: id, supplierId, currency and orderDate of a PurchaseOrder are fixed at
\* creation: every operation, whether it succeeds or throws, leaves the four
\* unchanged, and calculateTotalPrice leaves the item list and the state
\* unchanged too
C22_FixedAtCreation ==
    [][exists =>
          /\ id' = id
          /\ supplierId' = supplierId
          /\ currency' = currency
          /\ orderDate' = orderDate
          /\ op' = "calculateTotalPrice" => (items' = items /\ state' = state)]_vars

\* calculateTotalPrice has returned on an order in EUR, dated at its creation,
\* that was cancelled with two items
C22_Witness ==
    /\ op = "calculateTotalPrice"
    /\ result = "ok"
    /\ currency = EUR
    /\ orderDate = Now
    /\ state = "Cancelled"
    /\ Len(items) = 2

(***************************************************************************)
(* PurchaseOrderState objects                                              *)
(***************************************************************************)
\* the names of the transition methods
TransitionNames ==
    {"toSubmittedFrom", "toApprovedFrom", "toShippedFrom", "toCompletedFrom",
     "toCancelledFrom"}

\* v is the value of a state object, or no object has been built yet
StateValueOrNone(v) == v = "none" \/ v \in VALID_STATES

\* C23: a transition, whether it succeeds or throws, leaves the value of the
\* state object it is called on and of the one passed as argument unchanged,
\* and a success returns its result as another object; the value of every
\* state object is one of the six states
C23_NoMutationInPlace ==
    /\ [](/\ StateValueOrNone(thisState)
          /\ StateValueOrNone(argState)
          /\ op \in TransitionNames => \A i \in 1 .. Len(ret) : ret[i] \in VALID_STATES)
    /\ [][op' \in TransitionNames =>
              /\ thisState' = thisState
              /\ argState' = argState
              /\ result' = "ok" => Len(ret') = 1]_vars

\* toCancelledFrom called on a Draft state object with itself as argument, as
\* cancel() of the aggregate calls it: it returned Cancelled and both are
\* still Draft
C23_Witness ==
    /\ op = "toCancelledFrom"
    /\ result = "ok"
    /\ thisState = "Draft"
    /\ argState = "Draft"
    /\ ret = <<"Cancelled">>

(***************************************************************************)
(* The total price of orders with a large unit price                       *)
(***************************************************************************)
\* the addItem calls of these runs: first items at 5.00, at 10.00 (twice) and
\* at 2^53, then the default one at 5.00
TotalItemArgs(n) ==
    IF n < MaxVaried
    THEN {DefaultItemArgs,
          <<AProductId, Fin(2 * ONE), Fin(10 * ONE)>>,
          <<AProductId, Fin(ONE), TwoTo53>>}
    ELSE {DefaultItemArgs}

\* at most one item is priced from 2^53 on, so that every sum of the fold is
\* one the number model covers
TotalAddItem ==
    \E a \in TotalItemArgs(Len(items)) :
        /\ a[3].k = "big" => \A i \in 1 .. Len(items) : items[i].unitPrice.amount.k # "big"
        /\ AddItem(a[1], a[2], a[3])

TotalNext ==
    \/ \E a \in ConstructArgs : Construct(a[1], a[2], a[3], a[4])
    \/ TotalAddItem
    \/ CalculateTotalPrice

TotalSpec == Init /\ [][TotalNext]_vars

\* the list s in the opposite order, a permutation of s
Reverse(s) == [i \in 1 .. Len(s) |-> s[Len(s) + 1 - i]]

\* C24: the total price does not depend on the order in which the items were
\* added: an order of the same currency holding the same items in another
\* order (here: the opposite one) has an equal total
C24_OrderIndependent ==
    exists => SameMoney(calculateTotalPrice(items, currency),
                        calculateTotalPrice(Reverse(items), currency))

\* the same for orders without an item priced from 2^53 on
OrderIndependentBelowTwoTo53 ==
    (exists /\ \A i \in 1 .. Len(items) : items[i].unitPrice.amount.k # "big")
        => SameMoney(calculateTotalPrice(items, currency),
                     calculateTotalPrice(Reverse(items), currency))

(***************************************************************************)
(* SupplierId and ProductId                                                *)
(***************************************************************************)
\* the strings that are well-formed UUIDs
UUIDs == {"uuid-1", "uuid-2", "uuid-s", "uuid-p"}

\* isValidUUID(uuid): uuidValidate accepts a string that is a well-formed UUID
\* and nothing else
isValidUUID(v) == v.type = "string" /\ v.code \in UUIDs

\* constructor arguments of the identifiers
IdArgs ==
    {PlainString("uuid-s"), PlainString("uuid-p"), PlainString("not-a-uuid"),
     PlainString(""), Undefined, ObjectWithCode("uuid-s")}

\* ValidationError is an error class (class ValidationError extends Error)
ValidationError == [class |-> TRUE]

\* throw ValidationError(message): calling a class without new throws a
\* TypeError before any error object is constructed
ValidationErrorWithoutNew ==
    IF ValidationError.class
    THEN [error |-> TRUE, value |-> <<>>, kind |-> "TypeError"]
    ELSE Throw

\* the kind of outcome of a call whose result record is r
OutcomeKind(r) ==
    IF ~r.error THEN "ok"
    ELSE IF "kind" \in DOMAIN r THEN r.kind
    ELSE "ValidationError"

\* new SupplierId(value)
NewSupplierId(value) ==
    IF ~isValidUUID(value) THEN ValidationErrorWithoutNew
    ELSE Return([type |-> "SupplierId", code |-> value.code])

\* new ProductId(value)
NewProductId(value) ==
    IF ~isValidUUID(value) THEN Throw
    ELSE Return([type |-> "ProductId", code |-> value.code])

\* a = new SupplierId(value) or new ProductId(value), then b, then c; r is
\* the constructor's result
IdNew(i, name, r) ==
    /\ operands[i] = Undefined
    /\ \A j \in 1 .. i - 1 : operands[j] # Undefined
    /\ op' = name
    /\ result' = OutcomeKind(r)
    /\ ret' = r.value
    /\ operands' = IF r.error THEN operands ELSE [operands EXCEPT ![i] = ValueOf(r)]
    /\ UNCHANGED <<orderVars, thisState, argState>>

SupplierIdNew(i, value) == IdNew(i, "SupplierId", NewSupplierId(value))

ProductIdNew(i, value) == IdNew(i, "ProductId", NewProductId(value))

IdNext ==
    \/ \E i \in 1 .. 3 : \E v \in IdArgs : SupplierIdNew(i, v)
    \/ \E i \in 1 .. 3 : \E v \in IdArgs : ProductIdNew(i, v)

IdSpec == Init /\ [][IdNext]_vars

\* v is a string holding a well-formed UUID
WellFormed(v) == v.type = "string" /\ v.code \in {"uuid-1", "uuid-2", "uuid-s", "uuid-p"}

\* C25: constructing a SupplierId or a ProductId from a value that is not a
\* valid UUID throws a ValidationError and no other kind of error, and no
\* identifier object with an invalid value is created
C25_OnlyValidationError ==
    /\ [](\A i \in 1 .. 3 :
             operands[i].type \in {"SupplierId", "ProductId"}
                => operands[i].code \in {"uuid-1", "uuid-2", "uuid-s", "uuid-p"})
    /\ [][\A i \in 1 .. 3 : \A v \in IdArgs :
              (SupplierIdNew(i, v) \/ ProductIdNew(i, v))
                 => IF WellFormed(v)
                    THEN result' = "ok"
                    ELSE result' = "ValidationError" /\ operands' = operands]_vars

\* the same for ProductId alone, and for SupplierId with any kind of error
IdentifiersRejectInvalidValues ==
    /\ [](\A i \in 1 .. 3 :
             operands[i].type \in {"SupplierId", "ProductId"}
                => operands[i].code \in {"uuid-1", "uuid-2", "uuid-s", "uuid-p"})
    /\ [][\A i \in 1 .. 3 : \A v \in IdArgs :
              /\ ProductIdNew(i, v)
                    => IF WellFormed(v)
                       THEN result' = "ok"
                       ELSE result' = "ValidationError" /\ operands' = operands
              /\ SupplierIdNew(i, v)
                    => IF WellFormed(v)
                       THEN result' = "ok"
                       ELSE result' # "ok" /\ operands' = operands]_vars

====
